---- MODULE Spec2Model ----
(***************************************************************************)
(* Model of packs/standalone/src/animation.ts (code-surfer): the chain    *)
(* combinator, the step-transition animations built from it and the       *)
(* viewport-fit animations (scrollToFocus, scaleToFocus, getZoom).        *)
(*                                                                         *)
(* JavaScript values are records [k, n, d]: k = "num" is the number n/d   *)
(* (d > 0, lowest terms), k = "null" is null, k = "translateX(px)" is the *)
(* string `translateX(${n/d}px)`.  Numbers are exact rationals: IEEE-754  *)
(* rounding is not modelled.  A style object is a function from property  *)
(* names to values; closures returned by the constructors are records     *)
(* tagged by the function that built them and holding its captured        *)
(* variables.                                                              *)
(***************************************************************************)
EXTENDS Integers, Sequences, FiniteSets, TLC

VARIABLES ctor, anim, threw, t, result, evals, heap, held, rewound, mutated

vars == <<ctor, anim, threw, t, result, evals, heap, held, rewound, mutated>>

-----------------------------------------------------------------------------
(* Bounds of the model *)

\* progress values of the library specification are k/TGrid, k = 0..TGrid
TGrid == 20
\* progress values of the chain specification are k/ChainGrid (and the
\* phase boundaries)
ChainGrid == 4
\* style objects returned by a chain that the caller still references
MaxHeld == 1

-----------------------------------------------------------------------------
(* Program constants *)

distx == 250
outHeight == 0

-----------------------------------------------------------------------------
(* JavaScript numbers and the operators the source applies to them *)

Abs(x) == IF x < 0 THEN -x ELSE x

RECURSIVE GCD(_, _)
GCD(a, b) == IF b = 0 THEN a ELSE GCD(b, a % b)

\* the number n/d, d # 0
Num(n, d) ==
  LET s == IF d < 0 THEN -1 ELSE 1
      g == GCD(Abs(n), Abs(d))
  IN  [k |-> "num", n |-> (s * n) \div g, d |-> (s * d) \div g]

Whole(i) == Num(i, 1)
Zero == Whole(0)
One == Whole(1)
Null == [k |-> "null", n |-> 0, d |-> 1]

\* ToNumber: null coerces to 0 in arithmetic
ToNumber(v) == IF v.k = "null" THEN Zero ELSE v

Add(x, y) == LET a == ToNumber(x) b == ToNumber(y)
             IN  Num(a.n * b.d + b.n * a.d, a.d * b.d)
Sub(x, y) == LET a == ToNumber(x) b == ToNumber(y)
             IN  Num(a.n * b.d - b.n * a.d, a.d * b.d)
Mul(x, y) == LET a == ToNumber(x) b == ToNumber(y)
             IN  Num(a.n * b.n, a.d * b.d)
\* x / y for y # 0
Div(x, y) == LET a == ToNumber(x) b == ToNumber(y)
             IN  Num(a.n * b.d, a.d * b.n)
Lt(x, y) == x.n * y.d < y.n * x.d
Gt(x, y) == Lt(y, x)

\* Math.min of three numbers
MathMin(x, y, z) ==
  LET m == IF Lt(y, x) THEN y ELSE x
  IN  IF Lt(z, m) THEN z ELSE m

\* truthiness of a number-or-null: null and 0 are falsy
Truthy(v) == v.k # "null" /\ v.n # 0

\* a || b
Or(a, b) == IF Truthy(a) THEN a ELSE b

\* the template literal `translateX(${x}px)`
TranslateX(x) == [k |-> "translateX(px)", n |-> x.n, d |-> x.d]

-----------------------------------------------------------------------------
(* ./easing *)

linear(x) == x

easeInOutQuad(x) ==
  IF Lt(x, Num(1, 2))
  THEN Mul(Whole(2), Mul(x, x))
  ELSE Add(Whole(-1), Mul(Sub(Whole(4), Mul(Whole(2), x)), x))

Ease(e, x) == IF e = "easeInOutQuad" THEN easeInOutQuad(x) ELSE linear(x)

-----------------------------------------------------------------------------
(* Phase boundaries *)

EXIT == Num(3, 10)
SCROLL == Num(7, 10)
ENTER == One

-----------------------------------------------------------------------------
(* Styles *)

emptyStyle == <<>>

\* Object.assign(target.contents, source): own properties of source overwrite
ObjectAssign(target, source) ==
  [p \in (DOMAIN target) \cup (DOMAIN source) |->
     IF p \in DOMAIN source THEN source[p] ELSE target[p]]

\* object literal with one property
Obj1(p, v) == (p :> v)

-----------------------------------------------------------------------------
(* tween and the closures built from it *)

tween(from, to, x, ease) == Add(from, Mul(Sub(to, from), Ease(ease, x)))

\* the absent sub-animation of a segment
Undefined == [kind |-> "undefined", a |-> Zero, b |-> Zero]

Closure(kind, a, b) == [kind |-> kind, a |-> a, b |-> b]

slideToLeft(startOpacity, endOpacity) ==
  Closure("slideToLeft", startOpacity, endOpacity)
slideFromRight(startOpacity, endOpacity) ==
  Closure("slideFromRight", startOpacity, endOpacity)
shrinkHeight(lineHeight) == Closure("shrinkHeight", lineHeight, Zero)
growHeight(lineHeight) == Closure("growHeight", lineHeight, Zero)
fadeOut(offOpacity) == Closure("fadeOut", offOpacity, Zero)
fadeIn(offOpacity) == Closure("fadeIn", offOpacity, Zero)
\* t => ({ opacity: tween(fromOpacity, toOpacity, t) }) of changeFocus
opacityTween(fromOpacity, toOpacity) ==
  Closure("opacityTween", fromOpacity, toOpacity)
\* t => ({ scroll: tween(prevCenter, nextCenter, t, easeInOutQuad) })
scrollTween(prevCenter, nextCenter) ==
  Closure("scrollTween", prevCenter, nextCenter)

\* calling a style closure at local progress x
ApplyStyle(fn, x) ==
  CASE fn.kind = "slideToLeft" ->
         ("opacity" :> tween(fn.a, fn.b, x, "linear")) @@
         ("transform" :> TranslateX(tween(Zero, Whole(-distx), x, "linear")))
    [] fn.kind = "slideFromRight" ->
         ("opacity" :> tween(fn.a, fn.b, x, "linear")) @@
         ("transform" :> TranslateX(tween(Whole(distx), Zero, x, "linear")))
    [] fn.kind = "shrinkHeight" ->
         Obj1("height", tween(fn.a, Whole(outHeight), x, "easeInOutQuad"))
    [] fn.kind = "growHeight" ->
         Obj1("height", tween(Whole(outHeight), fn.a, x, "easeInOutQuad"))
    [] fn.kind = "fadeOut" -> Obj1("opacity", tween(One, fn.a, x, "linear"))
    [] fn.kind = "fadeIn" -> Obj1("opacity", tween(fn.a, One, x, "linear"))
    [] fn.kind = "opacityTween" ->
         Obj1("opacity", tween(fn.a, fn.b, x, "linear"))
    [] fn.kind = "scrollTween" ->
         Obj1("scroll", tween(fn.a, fn.b, x, "easeInOutQuad"))

-----------------------------------------------------------------------------
(* chain, on a heap of style objects (reference -> contents) *)

\* faulty variants: the running style is the template itself; the copy is
\* left empty
CopyStartAlias(h, startRef, new) == [ref |-> startRef, heap |-> h]
CopyStartEmpty(h, startRef, new) ==
  [ref |-> new, heap |-> (new :> emptyStyle) @@ h]
\* let style = Object.assign({}, start): a new object holding start's own
\* properties; the running style is the new object
CopyStart(h, startRef, new) ==
  [ref |-> new, heap |-> (new :> ObjectAssign(emptyStyle, h[startRef])) @@ h]

\* const stept = t > top ? 1 : (t - prevTop) / (top - prevTop)
\* faulty variant: local progress not clamped to 1 past the threshold
stepTUnclamped(x, top, prevTop) == Div(Sub(x, prevTop), Sub(top, prevTop))
stepT(x, top, prevTop) ==
  IF Gt(x, top) THEN One ELSE Div(Sub(x, prevTop), Sub(top, prevTop))

\* if (t < top) return style
\* faulty variant: the loop never returns early
ReturnsEarlyNever(x, top) == FALSE
ReturnsEarly(x, top) == Lt(x, top)

\* the for loop from segment i on; ev lists the <<segment, local progress>>
\* of every sub-animation call made so far
RECURSIVE chainLoop(_, _, _, _, _, _, _)
chainLoop(steps, x, i, ref, h, prevTop, ev) ==
  IF i > Len(steps) THEN [ref |-> ref, heap |-> h, evals |-> ev]
  ELSE
    LET top == steps[i][1]
        fn == steps[i][2]
        stept == stepT(x, top, prevTop)
        called == fn.kind # "undefined"
        h2 == IF called
              THEN [h EXCEPT ![ref] = ObjectAssign(h[ref], ApplyStyle(fn, stept))]
              ELSE h
        ev2 == IF called THEN Append(ev, <<i, stept>>) ELSE ev
    IN  IF ReturnsEarly(x, top)
        THEN [ref |-> ref, heap |-> h2, evals |-> ev2]
        ELSE chainLoop(steps, x, i + 1, ref, h2, top, ev2)

\* one call of the animation chain(steps, start), start being the object
\* startRef of heap h and new an unused reference
chainCall(steps, h, startRef, new, x) ==
  LET c == CopyStart(h, startRef, new)
  IN  chainLoop(steps, x, 1, c.ref, c.heap, Zero, <<>>)

\* the style a call at x of a freshly built chain(steps, start) returns
chain(steps, start, x) ==
  LET r == chainCall(steps, (0 :> start), 0, 1, x) IN r.heap[r.ref]

\* the sub-animation calls that call makes
chainEvals(steps, start, x) == chainCall(steps, (0 :> start), 0, 1, x).evals

-----------------------------------------------------------------------------
(* The exported constructors.  An animation is a record tagged by the     *)
(* closure it is; Chain is the closure chain() returns.                    *)

Chain(steps, start) == [kind |-> "chain", steps |-> steps, start |-> start]

\* () => v
Const(v) == [kind |-> "const", v |-> v]

exitLine(fromOpacity, toOpacity, lineHeight) ==
  Chain(<< <<EXIT, slideToLeft(fromOpacity, toOpacity)>>,
           <<SCROLL, shrinkHeight(lineHeight)>>,
           <<ENTER, Undefined>> >>,
        emptyStyle)

enterLineStart ==
  ("transform" :> TranslateX(Whole(distx))) @@ ("height" :> Zero) @@
  ("opacity" :> Zero)

\* faulty variant: the start style is left out
enterLineNoStart(fromOpacity, toOpacity, lineHeight) ==
  Chain(<< <<EXIT, Undefined>>,
           <<SCROLL, growHeight(lineHeight)>>,
           <<ENTER, slideFromRight(fromOpacity, toOpacity)>> >>,
        emptyStyle)

enterLine(fromOpacity, toOpacity, lineHeight) ==
  Chain(<< <<EXIT, Undefined>>,
           <<SCROLL, growHeight(lineHeight)>>,
           <<ENTER, slideFromRight(fromOpacity, toOpacity)>> >>,
        enterLineStart)

\* faulty variant: the two branches exchanged
changeFocusSwapped(fromOpacity, toOpacity) ==
  IF Lt(fromOpacity, toOpacity)
  THEN Chain(<< <<EXIT, opacityTween(fromOpacity, toOpacity)>>,
                <<SCROLL, Undefined>>,
                <<ENTER, Undefined>> >>,
             Obj1("opacity", fromOpacity))
  ELSE Chain(<< <<EXIT, Undefined>>,
                <<SCROLL, Undefined>>,
                <<ENTER, opacityTween(fromOpacity, toOpacity)>> >>,
             Obj1("opacity", fromOpacity))

changeFocus(fromOpacity, toOpacity) ==
  IF Lt(fromOpacity, toOpacity)
  THEN Chain(<< <<EXIT, Undefined>>,
                <<SCROLL, Undefined>>,
                <<ENTER, opacityTween(fromOpacity, toOpacity)>> >>,
             Obj1("opacity", fromOpacity))
  ELSE Chain(<< <<EXIT, opacityTween(fromOpacity, toOpacity)>>,
                <<SCROLL, Undefined>>,
                <<ENTER, Undefined>> >>,
             Obj1("opacity", fromOpacity))

fadeOutIn(offOpacity) ==
  Chain(<< <<Num(1, 2), fadeOut(offOpacity)>>, <<One, fadeIn(offOpacity)>> >>,
        emptyStyle)

halfFadeIn(offOpacity) ==
  Chain(<< <<Num(1, 2), Undefined>>, <<One, fadeIn(offOpacity)>> >>,
        Obj1("opacity", Zero))

halfFadeOut(offOpacity) ==
  Chain(<< <<Num(1, 2), fadeOut(offOpacity)>>, <<One, Undefined>> >>,
        emptyStyle)

-----------------------------------------------------------------------------
(* Steps, dimensions and the viewport-fit animations *)

\* the absent side of a step pair (null / undefined)
NoStep ==
  [present |-> FALSE, focusCenter |-> Zero, focusCount |-> Zero,
   measured |-> FALSE, paddingTop |-> Zero, paddingBottom |-> Zero]

\* a step whose dimensions were never measured
UnmeasuredStep(focusCenter, focusCount) ==
  [present |-> TRUE, focusCenter |-> focusCenter, focusCount |-> focusCount,
   measured |-> FALSE, paddingTop |-> Zero, paddingBottom |-> Zero]

MeasuredStep(focusCenter, focusCount, paddingTop, paddingBottom) ==
  [present |-> TRUE, focusCenter |-> focusCenter, focusCount |-> focusCount,
   measured |-> TRUE, paddingTop |-> paddingTop,
   paddingBottom |-> paddingBottom]

\* the absent dimensions argument
NoDimensions ==
  [present |-> FALSE, containerHeight |-> Zero, containerWidth |-> Zero,
   contentWidth |-> Zero, lineHeight |-> Zero]

Dims(containerHeight, containerWidth, contentWidth, lineHeight) ==
  [present |-> TRUE, containerHeight |-> containerHeight,
   containerWidth |-> containerWidth, contentWidth |-> contentWidth,
   lineHeight |-> lineHeight]

\* Tuple.spread(): the pair as [prev, next]
spread(stepPair) == stepPair

\* a completed call: a thrown Error, or a returned value
Thrown == [threw |-> TRUE, v |-> Null]
Returned(v) == [threw |-> FALSE, v |-> v]

\* faulty variant: no early return for an absent step
getZoomThrowsOnAbsent(step, dimensions) ==
  IF ~dimensions.present \/ ~step.measured THEN Thrown ELSE Returned(One)

getZoom(step, dimensions) ==
  IF ~step.present THEN Returned(Null)
  ELSE IF ~dimensions.present \/ ~step.measured THEN Thrown
  ELSE
    LET contentHeight == Mul(step.focusCount, dimensions.lineHeight)
        availableHeight ==
          Sub(dimensions.containerHeight,
              Mul(IF Lt(step.paddingBottom, step.paddingTop)
                  THEN step.paddingTop ELSE step.paddingBottom,
                  Whole(2)))
        yZoom == Div(availableHeight, contentHeight)
        xZoom == Div(Mul(Num(9, 10), dimensions.containerWidth),
                     dimensions.contentWidth)
    IN  Returned(MathMin(yZoom, One, xZoom))

\* t => tween(a, b, t, easing.easeInOutQuad)
ZoomTween(a, b) == [kind |-> "zoomTween", a |-> a, b |-> b]

\* the constructor's call ended in the Error getZoom threw
ThrowsAtBuild == [kind |-> "throw"]

\* faulty variant: no fallback to the other side's zoom
scaleToFocusNoFallback(stepPair, dimensions) ==
  IF ~dimensions.present THEN Const(One)
  ELSE
    LET prevZoom == getZoom(spread(stepPair)[1], dimensions)
        nextZoom == getZoom(spread(stepPair)[2], dimensions)
    IN  IF prevZoom.threw \/ nextZoom.threw THEN ThrowsAtBuild
        ELSE ZoomTween(prevZoom.v, nextZoom.v)

scaleToFocus(stepPair, dimensions) ==
  IF ~dimensions.present THEN Const(One)
  ELSE
    LET prevZoom == getZoom(spread(stepPair)[1], dimensions)
        nextZoom == getZoom(spread(stepPair)[2], dimensions)
    IN  IF prevZoom.threw \/ nextZoom.threw THEN ThrowsAtBuild
        ELSE ZoomTween(Or(prevZoom.v, nextZoom.v), Or(nextZoom.v, prevZoom.v))

\* t => animation(t).scroll
ScrollOf(animation) == [kind |-> "scrollOf", animation |-> animation]

\* faulty variant: the tween runs over the whole range
scrollToFocusWholeRange(stepPair, dimensions) ==
  IF ~dimensions.present THEN Const(Zero)
  ELSE
    LET prevStep == spread(stepPair)[1]
        nextStep == spread(stepPair)[2]
        prevCenter == IF prevStep.present
                      THEN Mul(prevStep.focusCenter, dimensions.lineHeight)
                      ELSE Zero
        nextCenter == IF nextStep.present
                      THEN Mul(nextStep.focusCenter, dimensions.lineHeight)
                      ELSE Zero
    IN  ScrollOf(Chain(<< <<ENTER, scrollTween(prevCenter, nextCenter)>> >>,
                       Obj1("scroll", prevCenter)))

scrollToFocus(stepPair, dimensions) ==
  IF ~dimensions.present THEN Const(Zero)
  ELSE
    LET prevStep == spread(stepPair)[1]
        nextStep == spread(stepPair)[2]
        prevCenter == IF prevStep.present
                      THEN Mul(prevStep.focusCenter, dimensions.lineHeight)
                      ELSE Zero
        nextCenter == IF nextStep.present
                      THEN Mul(nextStep.focusCenter, dimensions.lineHeight)
                      ELSE Zero
    IN  ScrollOf(Chain(<< <<EXIT, Undefined>>,
                          <<SCROLL, scrollTween(prevCenter, nextCenter)>>,
                          <<ENTER, Undefined>> >>,
                       Obj1("scroll", prevCenter)))

\* calling an animation at progress x
Apply(a, x) ==
  CASE a.kind = "chain" -> chain(a.steps, a.start, x)
    [] a.kind = "const" -> a.v
    [] a.kind = "scrollOf" ->
         chain(a.animation.steps, a.animation.start, x)["scroll"]
    [] a.kind = "zoomTween" -> tween(a.a, a.b, x, "easeInOutQuad")

-----------------------------------------------------------------------------
(* Inputs *)

Opacities == {Zero, Num(1, 4), One}
LineHeights == {Whole(20), Whole(100)}
OffOpacities == {Zero, Num(1, 4)}

Paddings == {<<Zero, Zero>>, <<Whole(100), Zero>>, <<Zero, Whole(120)>>,
             <<Whole(40), Whole(30)>>}

\* steps offered to scrollToFocus, which reads focusCenter only
ScrollSteps ==
  {NoStep}
  \cup {UnmeasuredStep(c, Whole(10)) : c \in {Zero, Whole(2), Num(5, 2)}}

\* steps offered to scaleToFocus and getZoom
ZoomSteps ==
  {NoStep, UnmeasuredStep(Whole(2), Whole(10))}
  \cup {MeasuredStep(Whole(2), n, p[1], p[2]) :
          n \in {Whole(10), Whole(30)}, p \in Paddings}

DimensionsSet ==
  {NoDimensions,
   Dims(Whole(200), Whole(100), Whole(50), Whole(10)),
   Dims(Whole(200), Whole(100), Whole(200), Whole(20))}

Times == {Num(i, TGrid) : i \in 0..TGrid}
\* the grid and the phase boundaries themselves
ChainTimes == {Num(i, ChainGrid) : i \in 0..ChainGrid} \cup {EXIT, SCROLL}

\* valid breakpoint lists: thresholds strictly increasing, the last one 1
ThresholdLists == {<<One>>, <<Num(1, 2), One>>, <<EXIT, SCROLL, ENTER>>}

SubAnimations == {Undefined, slideToLeft(Zero, One)}

SegmentLists ==
  UNION {{[i \in 1..Len(th) |-> <<th[i], f[i]>>] :
            f \in [1..Len(th) -> SubAnimations]} : th \in ThresholdLists}
  \cup {exitLine(Zero, One, Whole(100)).steps, fadeOutIn(Zero).steps,
        halfFadeOut(Zero).steps}

StartStyles == {emptyStyle, enterLineStart}

\* the value a caller writes into a style object it was handed
Poison == Whole(7)

-----------------------------------------------------------------------------
(* State:                                                                  *)
(*   ctor    the constructor call that built the current animation        *)
(*   anim    the animation it returned (or its thrown completion)         *)
(*   threw   whether the constructor call threw                           *)
(*   t       the progress of the last call of the animation (Null: none)  *)
(*   result  what that call returned                                      *)
(*   evals   the sub-animation calls that call made (chain only)          *)
(*   heap    the style objects alive: reference 0 is the start template   *)
(*           the chain closure captured, the others were returned         *)
(*   held    the returned references the caller still holds               *)
(*   rewound history: some call was made at a smaller progress than the   *)
(*           call before it                                                *)
(*   mutated history: the caller has written into a returned style object *)

NoCtor == [name |-> "none"]
NoAnim == [kind |-> "none"]

Invoked == t.k = "num"

\* constructors are called by a caller that has no animation yet
NothingBuilt == ctor.name = "none"

\* the constructor call ends by returning the animation or by throwing
Constructed ==
  /\ threw' = (anim'.kind = "throw")
  /\ t' = Null
  /\ result' = Null
  /\ UNCHANGED <<evals, heap, held, rewound, mutated>>

Init ==
  /\ ctor = NoCtor
  /\ anim = NoAnim
  /\ threw = FALSE
  /\ t = Null
  /\ result = Null
  /\ evals = <<>>
  /\ heap = <<>>
  /\ held = {}
  /\ rewound = FALSE
  /\ mutated = FALSE

BuildExitLine ==
  /\ NothingBuilt
  /\ \E from \in Opacities, to \in Opacities, lh \in LineHeights :
      /\ anim' = exitLine(from, to, lh)
      /\ ctor' = [name |-> "exitLine", from |-> from, to |-> to, lineHeight |-> lh]
      /\ Constructed

BuildEnterLine ==
  /\ NothingBuilt
  /\ \E from \in Opacities, to \in Opacities, lh \in LineHeights :
      /\ anim' = enterLine(from, to, lh)
      /\ ctor' = [name |-> "enterLine", from |-> from, to |-> to, lineHeight |-> lh]
      /\ Constructed

BuildChangeFocus ==
  /\ NothingBuilt
  /\ \E from \in Opacities, to \in Opacities :
      /\ anim' = changeFocus(from, to)
      /\ ctor' = [name |-> "changeFocus", from |-> from, to |-> to]
      /\ Constructed

BuildFadeOutIn ==
  /\ NothingBuilt
  /\ \E off \in OffOpacities :
      /\ anim' = fadeOutIn(off)
      /\ ctor' = [name |-> "fadeOutIn", off |-> off]
      /\ Constructed

BuildHalfFadeIn ==
  /\ NothingBuilt
  /\ \E off \in OffOpacities :
      /\ anim' = halfFadeIn(off)
      /\ ctor' = [name |-> "halfFadeIn", off |-> off]
      /\ Constructed

BuildHalfFadeOut ==
  /\ NothingBuilt
  /\ \E off \in OffOpacities :
      /\ anim' = halfFadeOut(off)
      /\ ctor' = [name |-> "halfFadeOut", off |-> off]
      /\ Constructed

BuildScrollToFocus ==
  /\ NothingBuilt
  /\ \E prev \in ScrollSteps, nxt \in ScrollSteps, dims \in DimensionsSet :
      /\ anim' = scrollToFocus(<<prev, nxt>>, dims)
      /\ ctor' = [name |-> "scrollToFocus", prevStep |-> prev, nextStep |-> nxt,
                  dimensions |-> dims]
      /\ Constructed

BuildScaleToFocus ==
  /\ NothingBuilt
  /\ \E prev \in ZoomSteps, nxt \in ZoomSteps, dims \in DimensionsSet :
      /\ anim' = scaleToFocus(<<prev, nxt>>, dims)
      /\ ctor' = [name |-> "scaleToFocus", prevStep |-> prev, nextStep |-> nxt,
                  dimensions |-> dims]
      /\ Constructed

\* the caller calls the animation it was handed
Invoke ==
  /\ anim.kind \notin {"none", "throw"}
  /\ \E x \in Times :
       /\ t' = x
       /\ result' = Apply(anim, x)
  /\ UNCHANGED <<ctor, anim, threw, evals, heap, held, rewound, mutated>>

Next ==
  \/ BuildExitLine
  \/ BuildEnterLine
  \/ BuildChangeFocus
  \/ BuildFadeOutIn
  \/ BuildHalfFadeIn
  \/ BuildHalfFadeOut
  \/ BuildScrollToFocus
  \/ BuildScaleToFocus
  \/ Invoke

Spec == Init /\ [][Next]_vars

-----------------------------------------------------------------------------
(* The chain combinator under scrubbing: one chain(steps, start) is built, *)
(* then called at any progress values in any order while the caller        *)
(* writes into the style objects it was handed and lets go of them.        *)

InitChain ==
  \E steps \in SegmentLists, start \in StartStyles :
    /\ ctor = [name |-> "chain", steps |-> steps, start |-> start]
    /\ anim = Chain(steps, start)
    /\ threw = FALSE
    /\ t = Null
    /\ result = Null
    /\ evals = <<>>
    /\ heap = (0 :> start)
    /\ held = {}
    /\ rewound = FALSE
    /\ mutated = FALSE

\* animation(x): a call of the closure chain() returned
CallChain ==
  /\ Cardinality(held) < MaxHeld
  /\ \E x \in ChainTimes :
       LET new == CHOOSE r \in 1..(MaxHeld + 1) : r \notin DOMAIN heap
           r == chainCall(anim.steps, heap, 0, new, x)
       IN  /\ t' = x
           /\ heap' = r.heap
           /\ held' = held \cup {r.ref}
           /\ result' = r.heap[r.ref]
           /\ evals' = r.evals
           /\ rewound' = (rewound \/ (Invoked /\ Lt(x, t)))
  /\ UNCHANGED <<ctor, anim, threw, mutated>>

\* the caller assigns to a property of a style object it was handed
Mutate ==
  /\ \E ref \in held :
       heap' = [heap EXCEPT ![ref] = ObjectAssign(@, Obj1("opacity", Poison))]
  /\ mutated' = TRUE
  /\ UNCHANGED <<ctor, anim, threw, t, result, evals, held, rewound>>

\* the caller lets go of a style object; unless the closure still
\* references it (the template), it is collected
Drop ==
  /\ \E ref \in held :
       /\ held' = held \ {ref}
       /\ heap' = [r \in (DOMAIN heap) \ ({ref} \ {0}) |-> heap[r]]
  /\ UNCHANGED <<ctor, anim, threw, t, result, evals, rewound, mutated>>

NextChain ==
  \/ CallChain
  \/ Mutate
  \/ Drop

SpecChain == InitChain /\ [][NextChain]_vars

-----------------------------------------------------------------------------
(* Properties of the chain combinator (SpecChain) *)

Le(x, y) == ~Lt(y, x)

\* progress x relative to the phase from lo to hi
PhaseT(x, lo, hi) == Div(Sub(x, lo), Sub(hi, lo))

AllProps == {"opacity", "transform", "height", "scroll"}

ChainCalled == ctor.name = "chain" /\ Invoked

FirstFn == ctor.steps[1][2]

\* C1 as stated: chain(segments, start)(0) returns a style equal to start
\* exactly, whatever the first segment holds.
C1_StartExactlyAtZero ==
  (ChainCalled /\ t = Zero) => result = ctor.start

\* C1 amended: chain(segments, start)(0) is start overlaid with the value at
\* local progress 0 of the first segment's sub-animation, and nothing of the
\* later segments; it is start exactly when the first segment holds no
\* sub-animation.
C1_StartOverlaidAtZero ==
  (ChainCalled /\ t = Zero) =>
    /\ FirstFn.kind = "undefined" => result = ctor.start
    /\ FirstFn.kind # "undefined" =>
         result = ObjectAssign(ctor.start, ApplyStyle(FirstFn, Zero))

\* exitLine's chain called at 0: the empty start style comes back with the
\* opacity and transform of slideToLeft at 0
C1_Witness ==
  /\ ChainCalled
  /\ t = Zero
  /\ ctor.steps = exitLine(Zero, One, Whole(100)).steps
  /\ ctor.start = emptyStyle
  /\ result = ("opacity" :> Zero) @@ ("transform" :> TranslateX(Zero))

\* C2: whatever calls were made before, in whatever order of t, and whatever
\* the caller wrote into the styles it was handed, a call at t returns what a
\* first call at t of a freshly built chain returns, in an object that is not
\* the start template, and the start template is unchanged.
C2_FunctionOfTAlone ==
  ctor.name = "chain" =>
    /\ heap[0] = ctor.start
    /\ 0 \notin held
    /\ Invoked =>
         /\ result = chain(ctor.steps, ctor.start, t)
         /\ evals = chainEvals(ctor.steps, ctor.start, t)

\* a call at a smaller t than the call before it, made after the caller wrote
\* into a returned style, returning something other than the start style
C2_Witness ==
  /\ ChainCalled
  /\ rewound
  /\ mutated
  /\ held # {}
  /\ result # ctor.start
  /\ \E ref \in held : heap[ref] = result

\* C10: chain is a short-circuiting left fold.  Every segment that ends
\* below t has its sub-animation called at local progress 1; at most one
\* call is at a local progress strictly between 0 and 1, and that progress
\* is (t - prevThreshold) / (threshold - prevThreshold); no segment that
\* starts after t is called; each segment is called at most once, in order;
\* the result holds the start style's properties and those the calls set,
\* each with the value of the last call that set it.
C10_ShortCircuitFold ==
  ChainCalled =>
    LET steps == ctor.steps
        PrevTop(i) == IF i = 1 THEN Zero ELSE steps[i - 1][1]
        Top(i) == steps[i][1]
        Has(i) == steps[i][2].kind # "undefined"
        Made == {evals[j] : j \in DOMAIN evals}
        Partial == {j \in DOMAIN evals :
                      Lt(Zero, evals[j][2]) /\ Lt(evals[j][2], One)}
        Value(j) == ApplyStyle(steps[evals[j][1]][2], evals[j][2])
        Setting(p) == {j \in DOMAIN evals : p \in DOMAIN Value(j)}
        Last(S) == CHOOSE j \in S : \A k \in S : k <= j
    IN  /\ \A i \in DOMAIN steps :
             (Has(i) /\ Lt(Top(i), t)) => <<i, One>> \in Made
        /\ Cardinality(Partial) <= 1
        /\ \A j \in Partial :
             evals[j][2] = Div(Sub(t, PrevTop(evals[j][1])),
                               Sub(Top(evals[j][1]), PrevTop(evals[j][1])))
        /\ \A j \in DOMAIN evals :
             /\ evals[j][1] \in DOMAIN steps
             /\ Has(evals[j][1])
             /\ Le(PrevTop(evals[j][1]), t)
        /\ \A j \in DOMAIN evals, k \in DOMAIN evals :
             j < k => evals[j][1] < evals[k][1]
        /\ DOMAIN result =
             (DOMAIN ctor.start) \cup {p \in AllProps : Setting(p) # {}}
        /\ \A p \in DOMAIN result :
             result[p] = IF Setting(p) = {} THEN ctor.start[p]
                         ELSE Value(Last(Setting(p)))[p]

\* t is exactly the first threshold of a three-segment list: the first
\* sub-animation is called at 1, the second at 0, both set opacity and the
\* second one's value is returned; the third is not called
C10_Witness ==
  /\ ChainCalled
  /\ Len(ctor.steps) = 3
  /\ t = ctor.steps[1][1]
  /\ evals = << <<1, One>>, <<2, Zero>> >>
  /\ ctor.steps[3][2].kind # "undefined"
  /\ "opacity" \in DOMAIN ApplyStyle(ctor.steps[1][2], One)
  /\ "opacity" \in DOMAIN ApplyStyle(ctor.steps[2][2], Zero)
  /\ result["opacity"] = ApplyStyle(ctor.steps[2][2], Zero)["opacity"]
  /\ result["opacity"] # ApplyStyle(ctor.steps[1][2], One)["opacity"]

-----------------------------------------------------------------------------
(* Properties of the viewport-fit animations (Spec) *)

ScaleBuilt == ctor.name = "scaleToFocus"

Measured(step) == step.present /\ step.measured
Unmeasured(step) == step.present /\ ~step.measured

\* C3 as stated: with both steps present and measured, scaleToFocus is the
\* eased tween between the two zooms: getZoom(previous) at t = 0 and
\* getZoom(next) at t = 1.
C3_TweenBetweenBothZooms ==
  (/\ ScaleBuilt
   /\ ctor.dimensions.present
   /\ Measured(ctor.prevStep)
   /\ Measured(ctor.nextStep)
   /\ Invoked) =>
    /\ t = Zero => result = getZoom(ctor.prevStep, ctor.dimensions).v
    /\ t = One => result = getZoom(ctor.nextStep, ctor.dimensions).v

\* C4: with exactly one side absent (and the other measured), scaleToFocus
\* is constant: at every t its value is the getZoom of the present side.
C4_ConstantAtDeckBoundary ==
  (/\ ScaleBuilt
   /\ ctor.dimensions.present
   /\ ctor.prevStep.present # ctor.nextStep.present
   /\ ~threw
   /\ Invoked) =>
    LET side == IF ctor.prevStep.present THEN ctor.prevStep ELSE ctor.nextStep
    IN  /\ getZoom(side, ctor.dimensions).v.k = "num"
        /\ result = getZoom(side, ctor.dimensions).v

\* (absent, stepA) called strictly inside (0, 1) with a zoom below 1
C4_Witness ==
  /\ ScaleBuilt
  /\ ctor.dimensions.present
  /\ ~ctor.prevStep.present
  /\ Measured(ctor.nextStep)
  /\ Invoked
  /\ Lt(Zero, t)
  /\ Lt(t, One)
  /\ result = Num(2, 5)

\* C5: the zoom precondition error is the only failure.  getZoom returns
\* null for an absent step, throws for a present step without dimensions and
\* returns a number otherwise; scaleToFocus throws, when it is built, iff
\* dimensions are present and a present step of the pair lacks dimensions;
\* with dimensions absent it is the constant 1; no other constructor throws
\* and no call of a returned animation throws.
C5_OnlyZoomPreconditionFails ==
  /\ ~ScaleBuilt => ~threw
  /\ threw <=> anim.kind = "throw"
  /\ threw => ~Invoked
  /\ ScaleBuilt =>
       /\ threw <=> (/\ ctor.dimensions.present
                     /\ (Unmeasured(ctor.prevStep) \/ Unmeasured(ctor.nextStep)))
       /\ ~ctor.dimensions.present =>
            /\ anim = Const(One)
            /\ Invoked => result = One
       /\ Invoked => result.k = "num"
       /\ ctor.dimensions.present =>
            \A step \in {ctor.prevStep, ctor.nextStep} :
              LET z == getZoom(step, ctor.dimensions)
              IN  /\ ~step.present => (~z.threw /\ z.v = Null)
                  /\ Unmeasured(step) => z.threw
                  /\ Measured(step) => (~z.threw /\ z.v.k = "num")

\* scaleToFocus((absent, unmeasured step), dims) threw when built
C5_Witness ==
  /\ ScaleBuilt
  /\ threw
  /\ ctor.dimensions.present
  /\ ~ctor.prevStep.present
  /\ Unmeasured(ctor.nextStep)

-----------------------------------------------------------------------------
(* Properties of the step-transition animations (Spec) *)

\* from + (to - from) * x
Lerp(from, to, x) == Add(from, Mul(Sub(to, from), x))

\* C7: changeFocus changes opacity in one phase only.  from < to: opacity is
\* from on [0, 0.7] and the linear tween from from to to over [0.7, 1].
\* from >= to: the linear tween over [0, 0.3] and to on [0.3, 1].  At t = 0
\* it is from and at t = 1 it is to.
C7_ChangeFocusOnePhase ==
  (ctor.name = "changeFocus" /\ Invoked) =>
    LET from == ctor.from
        to == ctor.to
    IN  /\ DOMAIN result = {"opacity"}
        /\ Lt(from, to) =>
             /\ Le(t, SCROLL) => result["opacity"] = from
             /\ Le(SCROLL, t) =>
                  result["opacity"] = Lerp(from, to, PhaseT(t, SCROLL, ENTER))
        /\ ~Lt(from, to) =>
             /\ Le(t, EXIT) =>
                  result["opacity"] = Lerp(from, to, PhaseT(t, Zero, EXIT))
             /\ Le(EXIT, t) => result["opacity"] = to
        /\ t = Zero => result["opacity"] = from
        /\ t = One => result["opacity"] = to

\* brightening, part of the way through ENTER
C7_Witness ==
  /\ ctor.name = "changeFocus"
  /\ Invoked
  /\ Lt(ctor.from, ctor.to)
  /\ Lt(SCROLL, t)
  /\ Lt(t, One)
  /\ Lt(ctor.from, result["opacity"])
  /\ Lt(result["opacity"], ctor.to)

====
